---- MODULE Spec2Model ----
(***************************************************************************)
(* A model of the two scripts of the repository:                           *)
(*   task1/youtube_video_finder.py  (class YouTubeVideoFinder)             *)
(*   task2/scraping.py              (the product scraper and its cleaner)  *)
(* Text is modelled as a sequence of one-character strings, so that the    *)
(* slicing, splitting, stripping and number conversions of the code are    *)
(* computed, not assumed.  A call that can raise returns a record with a   *)
(* field saying which exception left it ("" for a normal return).          *)
(***************************************************************************)
EXTENDS Integers, Sequences, FiniteSets, TLC

VARIABLES
    durParts,         \* the hour, minute and second components the duration text is written from
    duration_str,     \* _parse_duration: its argument
    parsed,           \* _parse_duration: its outcome, NotCalled before the call
    pc,               \* run: the statement of the workflow that executes next
    voice_input,      \* run: its argument
    query,            \* get_input: the query text it holds
    videos_response,  \* search_youtube: the items of the details response
    videos,           \* run: the list search_youtube returned
    analysis,         \* run: the text analyze_videos_with_llm returned
    result,           \* run: what it returned, or the exception that left it
    calls,            \* the calls made to the external services, in order
    heard,            \* the outcome of each speech recognition attempt, in order
    item,             \* extract_product_data: its argument, a listing container
    product_data,     \* extract_product_data: its outcome, NotExtracted before the call
    b_pc,             \* scrape_amazon_products: the statement that executes next
    num_pages,        \* scrape_amazon_products: its argument
    pages,            \* scrape_amazon_products: the list get_urls returned
    page_i,           \* scrape_amazon_products: position in pages of the page of the loop
    driver,           \* the browser session: "none", "open" or "quit"
    quit_calls,       \* how many times driver.quit() has been called
    fetched,          \* the containers find_all returned, page by page
    products_data,    \* scrape_amazon_products: the list it collects
    scraped,          \* scrape_amazon_products: what it returned, or the exception that left it
    fetch_log,        \* the driver.get and time.sleep calls, in order
    c_pc,             \* the cleaner: "raw", "cleaned" (once) or "recleaned" (twice)
    raw_df,           \* the frame clean_data is first given
    clean_df,         \* clean_data(raw_df): its outcome
    reclean_df        \* clean_data(clean_data(raw_df)): its outcome

varsParse == <<durParts, duration_str, parsed>>

varsRun ==
    <<pc, voice_input, query, videos_response, videos, analysis, result, calls, heard>>

varsExtract == <<item, product_data>>

varsScrape ==
    <<b_pc, num_pages, pages, page_i, driver, quit_calls, fetched, products_data, scraped,
      fetch_log>>

varsClean == <<c_pc, raw_df, clean_df, reclean_df>>

\* What the steps of one part of the model leave alone: the other parts.
notParse == <<varsRun, varsExtract, varsScrape, varsClean>>

notRun == <<varsParse, varsExtract, varsScrape, varsClean>>

notExtract == <<varsParse, varsRun, varsScrape, varsClean>>

notScrape == <<varsParse, varsRun, varsExtract, varsClean>>

notClean == <<varsParse, varsRun, varsExtract, varsScrape>>

vars == <<durParts, duration_str, parsed,
          pc, voice_input, query, videos_response, videos, analysis, result, calls,
          heard, item, product_data,
          b_pc, num_pages, pages, page_i, driver, quit_calls, fetched, products_data, scraped,
          fetch_log, c_pc, raw_df, clean_df, reclean_df>>

NotCalled == [exc |-> "not called", value |-> 0]

\* None, where run returns it in place of a video.
NoVideo == [id |-> 0, duration |-> <<>>]

\* run has not returned.
Running == [exc |-> "running", video |-> NoVideo, explanation |-> <<>>]

\* The fields of a product record, all empty.
NoRecord ==
    [Title |-> <<>>, Brand |-> <<>>, Reviews |-> <<>>, Rating |-> <<>>, Selling_Price |-> <<>>,
     Image_URL |-> <<>>, Product_URL |-> <<>>, Sponsored |-> FALSE]

\* extract_product_data has not been called.
NotExtracted == [status |-> "not called", record |-> NoRecord]

\* scrape_amazon_products has not returned.
Scraping == [exc |-> "running", value |-> <<>>]

\* clean_data has not been called.
NotCleaned == [exc |-> "not called", rows |-> <<>>, numeric |-> FALSE]

\* The frame pd.DataFrame([]) gives: no row and no column.
EmptyFrame == [rows |-> <<>>, numeric |-> FALSE]

ExtractIdle == item = <<>> /\ product_data = NotExtracted

ScrapeIdle ==
    /\ b_pc = "idle" /\ num_pages = 0 /\ pages = <<>> /\ page_i = 0 /\ driver = "none"
    /\ quit_calls = 0 /\ fetched = <<>> /\ products_data = <<>> /\ scraped = Scraping
    /\ fetch_log = <<>>

CleanIdle ==
    c_pc = "idle" /\ raw_df = EmptyFrame /\ clean_df = NotCleaned /\ reclean_df = NotCleaned

ParseIdle == durParts = <<>> /\ duration_str = <<>> /\ parsed = NotCalled

RunIdle ==
    /\ pc = "idle" /\ voice_input = FALSE /\ query = "" /\ videos_response = <<>>
    /\ videos = <<>> /\ analysis = <<>> /\ result = Running /\ calls = <<>>
    /\ heard = <<>>

\* ------------------------------------------------------------------------
\* Python text primitives
\* ------------------------------------------------------------------------

DigitChars == <<"0", "1", "2", "3", "4", "5", "6", "7", "8", "9">>

IsDigit(c) == \E i \in 1..10 : DigitChars[i] = c

DigitValue(c) == (CHOOSE i \in 1..10 : DigitChars[i] = c) - 1

\* s[n:] of Python: the text without its first n characters.
SliceFrom(s, n) == IF n >= Len(s) THEN <<>> ELSE SubSeq(s, n + 1, Len(s))

\* `c in s` of Python for a one-character c.
Contains(s, c) == \E i \in 1..Len(s) : s[i] = c

\* 1-based position of the first c in s, 0 when there is none.
FirstIndex(s, c) ==
    IF Contains(s, c) THEN CHOOSE i \in 1..Len(s) : s[i] = c /\ \A j \in 1..(i - 1) : s[j] # c
    ELSE 0

\* s.split(c) of Python: the pieces of s between the occurrences of c.
RECURSIVE Split(_, _)
Split(s, c) ==
    LET i == FirstIndex(s, c) IN
    IF i = 0 THEN <<s>>
    ELSE <<SubSeq(s, 1, i - 1)>> \o Split(SliceFrom(s, i), c)

\* int(s) of Python accepts a non-empty run of decimal digits (the texts of
\* the model hold no sign, blank or underscore); anything else is ValueError.
IntOk(s) == Len(s) > 0 /\ \A i \in 1..Len(s) : IsDigit(s[i])

RECURSIVE IntOf(_)
IntOf(s) ==
    IF Len(s) = 0 THEN 0
    ELSE 10 * IntOf(SubSeq(s, 1, Len(s) - 1)) + DigitValue(s[Len(s)])

\* str(n) of Python for n >= 0.
RECURSIVE StrOf(_)
StrOf(n) ==
    IF n < 10 THEN <<DigitChars[n + 1]>>
    ELSE StrOf(n \div 10) \o <<DigitChars[(n % 10) + 1]>>

Returned(v) == [exc |-> "", value |-> v]

Raised(e) == [exc |-> e, value |-> 0]

\* ------------------------------------------------------------------------
\* YouTubeVideoFinder._parse_duration
\* ------------------------------------------------------------------------

\* One `if X in duration:` block of _parse_duration with a two-name unpacking
\* (`hours, duration = duration.split('H')`): acc is the running state
\* [exc, seconds, duration].
ParseComponent(acc, marker, factor) ==
    IF acc.exc # "" \/ ~Contains(acc.duration, marker) THEN acc
    ELSE LET parts == Split(acc.duration, marker) IN
         IF Len(parts) # 2 THEN [acc EXCEPT !.exc = "ValueError"]
         ELSE IF ~IntOk(parts[1]) THEN [acc EXCEPT !.exc = "ValueError"]
         ELSE [exc |-> "", seconds |-> acc.seconds + IntOf(parts[1]) * factor,
               duration |-> parts[2]]

\* The last block: `s = duration.split('S')[0]; seconds += int(s)`.
ParseSeconds(acc) ==
    IF acc.exc # "" \/ ~Contains(acc.duration, "S") THEN acc
    ELSE LET s == Split(acc.duration, "S")[1] IN
         IF ~IntOk(s) THEN [acc EXCEPT !.exc = "ValueError"]
         ELSE [acc EXCEPT !.seconds = acc.seconds + IntOf(s)]

\* A plausible slip: the minute component weighted like the hour component.
ParseDurationMinutesAsHours(text) ==
    LET a0 == [exc |-> "", seconds |-> 0, duration |-> SliceFrom(text, 2)]
        a1 == ParseComponent(a0, "H", 3600)
        a2 == ParseComponent(a1, "M", 3600)
        a3 == ParseSeconds(a2)
    IN  IF a3.exc # "" THEN Raised(a3.exc) ELSE Returned(a3.seconds)

ParseDuration(text) ==
    LET a0 == [exc |-> "", seconds |-> 0, duration |-> SliceFrom(text, 2)]
        a1 == ParseComponent(a0, "H", 3600)
        a2 == ParseComponent(a1, "M", 60)
        a3 == ParseSeconds(a2)
    IN  IF a3.exc # "" THEN Raised(a3.exc) ELSE Returned(a3.seconds)

\* ------------------------------------------------------------------------
\* The duration parser on the texts "PT[n]H[n]M[n]S"
\* ------------------------------------------------------------------------

\* Largest number written in a component of a duration text.
MaxComp == 20

Absent == [present |-> FALSE, n |-> 0, zeros |-> 0]

\* A component is absent, or a number written in decimal, possibly after a
\* leading zero ("PT05M").
Components ==
    {Absent} \cup [present : {TRUE}, n : 0..MaxComp, zeros : 0..1]

ComponentText(c, marker) ==
    IF ~c.present THEN <<>>
    ELSE [i \in 1..c.zeros |-> "0"] \o StrOf(c.n) \o <<marker>>

DurationText(parts) ==
    <<"P", "T">> \o ComponentText(parts[1], "H") \o ComponentText(parts[2], "M")
                 \o ComponentText(parts[3], "S")

InitParse ==
    /\ durParts \in Components \X Components \X Components
    /\ duration_str = DurationText(durParts)
    /\ parsed = NotCalled
    /\ RunIdle /\ ExtractIdle /\ ScrapeIdle /\ CleanIdle

CallParseDuration ==
    /\ parsed = NotCalled
    /\ parsed' = ParseDuration(duration_str)
    /\ UNCHANGED <<durParts, duration_str>>
    /\ UNCHANGED notParse

NextParse == CallParseDuration

SpecParse == InitParse /\ [][NextParse]_vars

\* C1: for every duration text "PT[n]H[n]M[n]S" with any subset of the three
\* components present, _parse_duration returns hours*3600 + minutes*60 +
\* seconds, an absent component counting as 0.
C1_ParseDurationSum ==
    parsed # NotCalled =>
        /\ parsed.exc = ""
        /\ parsed.value = durParts[1].n * 3600 + durParts[2].n * 60 + durParts[3].n

\* "PT20M" has been parsed, to 1200.
C1_Witness ==
    /\ duration_str = <<"P", "T", "2", "0", "M">>
    /\ parsed = Returned(1200)

\* ------------------------------------------------------------------------
\* YouTubeVideoFinder.search_youtube
\* ------------------------------------------------------------------------

\* maxResults of the search request: the details response has at most as
\* many items.
MaxResults == 50

\* The duration window of the filter, in seconds, and the cap on the list.
MinSeconds == 240

MaxSeconds == 1200

MaxVideos == 20

\* The item the loop keeps for a video of the details response.  Only the id
\* and the duration text bear on what the workflow selects; the title, the
\* channel, the date, the view count and the url are copied beside them.
FilteredVideo(video) == [id |-> video.id, duration |-> video.duration]

\* The loop of search_youtube from item i on: the list it returns, or the
\* exception of _parse_duration, which nothing in search_youtube catches.
RECURSIVE FilterLoop(_, _, _)
FilterLoop(items, i, filtered_videos) ==
    IF i > Len(items) THEN [exc |-> "", value |-> filtered_videos]
    ELSE LET duration_seconds == ParseDuration(items[i].duration) IN
         IF duration_seconds.exc # "" THEN [exc |-> duration_seconds.exc, value |-> <<>>]
         ELSE IF MinSeconds <= duration_seconds.value /\ duration_seconds.value <= MaxSeconds
              THEN LET kept == Append(filtered_videos, FilteredVideo(items[i])) IN
                   IF Len(kept) >= MaxVideos THEN [exc |-> "", value |-> kept]
                   ELSE FilterLoop(items, i + 1, kept)
              ELSE FilterLoop(items, i + 1, filtered_videos)

FilterVideos(items) == FilterLoop(items, 1, <<>>)

\* Duration texts of the details response: 3:59, 4:00, 20:00 and 20:01, and
\* the form the platform gives a video of a day or more ("P1DT1H").
DurationKinds ==
    { <<"P", "T", "3", "M", "5", "9", "S">>,
      <<"P", "T", "4", "M">>,
      <<"P", "T", "2", "0", "M">>,
      <<"P", "T", "2", "0", "M", "1", "S">>,
      <<"P", "1", "D", "T", "1", "H">> }

\* Longest run of durations a details response of the model repeats.
MaxPattern == 2

SeqsUpTo(S, k) == UNION {[1..n -> S] : n \in 0..k}

\* The details responses of the search stage taken alone: n items, ids 1..n
\* in the order of the response, the durations repeating a short pattern.
CycledLists ==
    { [i \in 1..n |-> [id |-> i, duration |-> p[((i - 1) % Len(p)) + 1]]] :
        n \in 0..MaxResults, p \in SeqsUpTo(DurationKinds, MaxPattern) \ {<<>>} }

\* Longest details response of a whole run of the model.
MaxRunItems == 2

RunKinds ==
    { <<"P", "T", "4", "M">>,
      <<"P", "T", "2", "0", "M", "1", "S">>,
      <<"P", "1", "D", "T", "1", "H">> }

RunLists ==
    { [i \in 1..Len(d) |-> [id |-> i, duration |-> d[i]]] : d \in SeqsUpTo(RunKinds, MaxRunItems) }

\* ------------------------------------------------------------------------
\* YouTubeVideoFinder.select_best_video
\* ------------------------------------------------------------------------

\* A ranking text is a sequence of these: the ten characters "Best video" as
\* one element (no part of them starts a second occurrence), ":", a blank
\* (any \s character), the brackets, digits, and "x" for any other character.
TextTokens == {"Best video", ":", " ", "[", "]", "0", "1", "2", "x"}

Fallback == <<"Could not parse LLM analysis. Defaulting to first result.">>

At(text, i, c) == i <= Len(text) /\ text[i] = c

\* \s* from position i: the position after the blanks (the repetition is
\* greedy, and giving a blank back never lets the rest of the pattern match).
RECURSIVE SkipBlanks(_, _)
SkipBlanks(text, i) == IF At(text, i, " ") THEN SkipBlanks(text, i + 1) ELSE i

\* \d+ from position i: the position after the digits.
RECURSIVE SkipDigits(_, _)
SkipDigits(text, i) ==
    IF i <= Len(text) /\ IsDigit(text[i]) THEN SkipDigits(text, i + 1) ELSE i

\* The pattern r"Best video:?\s*\[?(\d+)\]?" tried at position i: group 1 of
\* the match, or <<>> when the pattern does not match there.
MatchAt(text, i) ==
    IF ~At(text, i, "Best video") THEN <<>>
    ELSE LET afterColon == IF At(text, i + 1, ":") THEN i + 2 ELSE i + 1
             afterBlanks == SkipBlanks(text, afterColon)
             afterBracket == IF At(text, afterBlanks, "[") THEN afterBlanks + 1 ELSE afterBlanks
             afterDigits == SkipDigits(text, afterBracket)
         IN  IF afterDigits > afterBracket THEN SubSeq(text, afterBracket, afterDigits - 1)
             ELSE <<>>

\* re.search: the match at the leftmost position that has one.
RECURSIVE SearchFrom(_, _)
SearchFrom(text, i) ==
    IF i > Len(text) THEN <<>>
    ELSE IF MatchAt(text, i) # <<>> THEN MatchAt(text, i)
    ELSE SearchFrom(text, i + 1)

ReSearch(text) == SearchFrom(text, 1)

\* A plausible slip: the except branch re-raises, and the function has no
\* default after the try block.
SelectBestVideoNoDefault(candidates, text) ==
    LET group == ReSearch(text)
        best_index == IntOf(group) - 1
    IN  IF group # <<>> /\ 0 <= best_index /\ best_index < Len(candidates)
        THEN [exc |-> "", video |-> candidates[best_index + 1], explanation |-> text]
        ELSE [exc |-> "ValueError", video |-> NoVideo, explanation |-> <<>>]

\* A plausible slip: the named index used as a 0-based position.
SelectBestVideoZeroBased(candidates, text) ==
    LET group == ReSearch(text)
        best_index == IntOf(group)
    IN  IF group # <<>> /\ 0 <= best_index /\ best_index < Len(candidates)
        THEN [exc |-> "", video |-> candidates[best_index + 1], explanation |-> text]
        ELSE IF Len(candidates) = 0
             THEN [exc |-> "IndexError", video |-> NoVideo, explanation |-> <<>>]
             ELSE [exc |-> "", video |-> candidates[1], explanation |-> Fallback]

\* select_best_video.  On the texts of the model nothing inside the try block
\* raises (int() of a digit run succeeds); an exception there would be caught
\* and end at the same default.  `videos[0]` after the try block is outside
\* it and raises IndexError on an empty list.
SelectBestVideo(candidates, text) ==
    LET group == ReSearch(text)
        best_index == IntOf(group) - 1
    IN  IF group # <<>> /\ 0 <= best_index /\ best_index < Len(candidates)
        THEN [exc |-> "", video |-> candidates[best_index + 1], explanation |-> text]
        ELSE IF Len(candidates) = 0
             THEN [exc |-> "IndexError", video |-> NoVideo, explanation |-> <<>>]
             ELSE [exc |-> "", video |-> candidates[1], explanation |-> Fallback]

\* Longest ranking text of the selection taken alone, and of a whole run.
MaxTextLen == 4

Texts == SeqsUpTo(TextTokens, MaxTextLen)

RunTexts == SeqsUpTo(TextTokens, MaxTextLen - 2)

\* Longest candidate list of the selection taken alone.
MaxCandidates == 3

CandidateLists ==
    { [i \in 1..n |-> [id |-> i, duration |-> <<"P", "T", "4", "M">>]] : n \in 1..MaxCandidates }

\* ------------------------------------------------------------------------
\* YouTubeVideoFinder.get_input and YouTubeVideoFinder.run, statement by
\* statement; each call to an external service is one step, whose outcome
\* (a value, or an exception) is the service's choice.
\* ------------------------------------------------------------------------

\* What get_input returns for None; `not query` holds of it and of "".
QueryNone == "<None>"

TypedQueries == {"", "cooking", "khana"}

SpokenQueries == {"cooking", "khana"}

\* recognize_google returns a transcript, or raises UnknownValueError
\* (unintelligible audio), RequestError (service unreachable or refusing) or
\* some other exception (a socket timeout is not wrapped).
RecognitionFailures == {"UnknownValueError", "RequestError", "TimeoutError"}

ReturnNone(message) == [exc |-> "", video |-> NoVideo, explanation |-> <<message>>]

RunRaised(e) == [exc |-> e, video |-> NoVideo, explanation |-> <<>>]

\* run leaves with exception e; the other variables keep their values.
Propagate(e) == result' = RunRaised(e) /\ pc' = "done"

\* get_input, voice_input false: input().
ReadText ==
    /\ pc = "get_input" /\ ~voice_input
    /\ \E q \in TypedQueries : query' = q
    /\ pc' = "detect"
    /\ UNCHANGED <<voice_input, videos_response, videos, analysis, result, calls, heard>>
    /\ UNCHANGED notRun

\* get_input, voice_input true: the microphone block, outside the try.
Listen ==
    /\ pc = "get_input" /\ voice_input
    /\ \/ pc' = "recognize_hi" /\ UNCHANGED result
       \/ Propagate("OSError")
    /\ UNCHANGED <<voice_input, query, videos_response, videos, analysis, calls, heard>>
    /\ UNCHANGED notRun

\* The inner try: recognize_google(audio, language="hi-IN"); the bare except
\* sends every failure to the second attempt.
RecognizeHindi ==
    /\ pc = "recognize_hi"
    /\ calls' = Append(calls, "recognize hi-IN")
    /\ \/ \E q \in SpokenQueries :
            query' = q /\ pc' = "detect" /\ heard' = Append(heard, "transcript")
       \/ \E e \in RecognitionFailures :
            pc' = "recognize_en" /\ heard' = Append(heard, e) /\ UNCHANGED query
    /\ UNCHANGED <<voice_input, videos_response, videos, analysis, result>>
    /\ UNCHANGED notRun

\* A plausible slip: the outer try catches UnknownValueError alone.
RecognizeEnglishRequestErrorUncaught ==
    /\ pc = "recognize_en"
    /\ calls' = Append(calls, "recognize en-US")
    /\ \/ \E q \in SpokenQueries :
            /\ query' = q /\ pc' = "detect" /\ heard' = Append(heard, "transcript")
            /\ UNCHANGED result
       \/ \E e \in RecognitionFailures :
            /\ heard' = Append(heard, e)
            /\ IF e = "UnknownValueError"
               THEN query' = QueryNone /\ pc' = "check_query" /\ UNCHANGED result
               ELSE Propagate(e) /\ UNCHANGED query
    /\ UNCHANGED <<voice_input, videos_response, videos, analysis>>
    /\ UNCHANGED notRun

\* The bare except: recognize_google(audio, language="en-US"), inside the
\* outer try, which catches UnknownValueError and RequestError and returns None.
RecognizeEnglish ==
    /\ pc = "recognize_en"
    /\ calls' = Append(calls, "recognize en-US")
    /\ \/ \E q \in SpokenQueries :
            /\ query' = q /\ pc' = "detect" /\ heard' = Append(heard, "transcript")
            /\ UNCHANGED result
       \/ \E e \in RecognitionFailures :
            /\ heard' = Append(heard, e)
            /\ IF e \in {"UnknownValueError", "RequestError"}
               THEN query' = QueryNone /\ pc' = "check_query" /\ UNCHANGED result
               ELSE Propagate(e) /\ UNCHANGED query
    /\ UNCHANGED <<voice_input, videos_response, videos, analysis>>
    /\ UNCHANGED notRun

\* translator.detect(query); the language it reports is the service's answer.
DetectLanguage ==
    /\ pc = "detect"
    /\ calls' = Append(calls, "translator.detect")
    /\ \/ \E lang \in {"en", "hi"} :
            pc' = (IF lang # "en" THEN "translate" ELSE "check_query") /\ UNCHANGED result
       \/ Propagate("ConnectError")
    /\ UNCHANGED <<voice_input, query, videos_response, videos, analysis, heard>>
    /\ UNCHANGED notRun

\* translator.translate(query, dest='en').text
Translate ==
    /\ pc = "translate"
    /\ calls' = Append(calls, "translator.translate")
    /\ \/ query' = (IF query = "" THEN "" ELSE "cooking") /\ pc' = "check_query"
          /\ UNCHANGED result
       \/ Propagate("ConnectError") /\ UNCHANGED query
    /\ UNCHANGED <<voice_input, videos_response, videos, analysis, heard>>
    /\ UNCHANGED notRun

\* run: `if not query: return None, "No valid query provided"`.
CheckQuery ==
    /\ pc = "check_query"
    /\ IF query = QueryNone \/ query = ""
       THEN result' = ReturnNone("No valid query provided") /\ pc' = "done"
       ELSE pc' = "search_list" /\ UNCHANGED result
    /\ UNCHANGED <<voice_input, query, videos_response, videos, analysis, calls, heard>>
    /\ UNCHANGED notRun

\* search_youtube: youtube.search().list(...).execute()
SearchList ==
    /\ pc = "search_list"
    /\ calls' = Append(calls, "youtube.search.list")
    /\ \/ pc' = "videos_list" /\ UNCHANGED result
       \/ Propagate("HttpError")
    /\ UNCHANGED <<voice_input, query, videos_response, videos, analysis, heard>>
    /\ UNCHANGED notRun

\* search_youtube: youtube.videos().list(...).execute(), whose items are one
\* of `lists`.
VideosList(lists) ==
    /\ pc = "videos_list"
    /\ calls' = Append(calls, "youtube.videos.list")
    /\ \/ \E items \in lists : videos_response' = items /\ pc' = "filter" /\ UNCHANGED result
       \/ Propagate("HttpError") /\ UNCHANGED videos_response
    /\ UNCHANGED <<voice_input, query, videos, analysis, heard>>
    /\ UNCHANGED notRun

\* search_youtube: the filter loop and the return.
FilterStage ==
    /\ pc = "filter"
    /\ LET r == FilterVideos(videos_response) IN
       IF r.exc # "" THEN Propagate(r.exc) /\ UNCHANGED videos
       ELSE videos' = r.value /\ pc' = "check_videos" /\ UNCHANGED result
    /\ UNCHANGED <<voice_input, query, videos_response, analysis, calls, heard>>
    /\ UNCHANGED notRun

\* A plausible slip: run goes on to the ranking without testing the list.
CheckVideosNoEmptyTest ==
    /\ pc = "check_videos"
    /\ pc' = "analyze" /\ UNCHANGED result
    /\ UNCHANGED <<voice_input, query, videos_response, videos, analysis, calls, heard>>
    /\ UNCHANGED notRun

\* run: `if not videos: return None, "No videos found matching the criteria"`.
CheckVideos ==
    /\ pc = "check_videos"
    /\ IF videos = <<>>
       THEN result' = ReturnNone("No videos found matching the criteria") /\ pc' = "done"
       ELSE pc' = "analyze" /\ UNCHANGED result
    /\ UNCHANGED <<voice_input, query, videos_response, videos, analysis, calls, heard>>
    /\ UNCHANGED notRun

\* analyze_videos_with_llm: model.generate_content(prompt).text, one of `texts`.
Analyze(texts) ==
    /\ pc = "analyze"
    /\ calls' = Append(calls, "model.generate_content")
    /\ \/ \E t \in texts : analysis' = t /\ pc' = "select" /\ UNCHANGED result
       \/ Propagate("GoogleAPIError") /\ UNCHANGED analysis
    /\ UNCHANGED <<voice_input, query, videos_response, videos, heard>>
    /\ UNCHANGED notRun

\* run: select_best_video(videos, analysis) and the return.
Select ==
    /\ pc = "select"
    /\ result' = SelectBestVideo(videos, analysis)
    /\ pc' = "done"
    /\ UNCHANGED <<voice_input, query, videos_response, videos, analysis, calls, heard>>
    /\ UNCHANGED notRun

InitRun ==
    /\ pc = "get_input" /\ voice_input \in BOOLEAN /\ query = "" /\ videos_response = <<>>
    /\ videos = <<>> /\ analysis = <<>> /\ result = Running /\ calls = <<>>
    /\ heard = <<>>

Init == InitRun /\ ParseIdle /\ ExtractIdle /\ ScrapeIdle /\ CleanIdle

Next ==
    \/ ReadText
    \/ Listen
    \/ RecognizeHindi
    \/ RecognizeEnglish
    \/ DetectLanguage
    \/ Translate
    \/ CheckQuery
    \/ SearchList
    \/ VideosList(RunLists)
    \/ FilterStage
    \/ CheckVideos
    \/ Analyze(RunTexts)
    \/ Select

Spec == Init /\ [][Next]_vars

\* ------------------------------------------------------------------------
\* The search stage taken alone: the details call and the filter loop, on
\* details responses of up to MaxResults items.
\* ------------------------------------------------------------------------

InitSearch ==
    /\ pc = "videos_list" /\ voice_input = FALSE /\ query = "cooking"
    /\ videos_response = <<>> /\ videos = <<>> /\ analysis = <<>> /\ result = Running
    /\ calls = <<"translator.detect", "youtube.search.list">> /\ heard = <<>>
    /\ ParseIdle /\ ExtractIdle /\ ScrapeIdle /\ CleanIdle

NextSearch ==
    \/ VideosList(CycledLists)
    \/ FilterStage

SpecSearch == InitSearch /\ [][NextSearch]_vars

\* The duration of the item parses to a number of seconds in the window.
InWindow(video) ==
    LET d == ParseDuration(video.duration) IN
    d.exc = "" /\ MinSeconds <= d.value /\ d.value <= MaxSeconds

Min(a, b) == IF a <= b THEN a ELSE b

FirstInWindow(items) ==
    LET kept == SelectSeq(items, InWindow) IN
    [i \in 1..Min(MaxVideos, Len(kept)) |-> FilteredVideo(kept[i])]

\* The details call has returned its items and search_youtube has run to its end.
SearchEnded == pc = "check_videos" \/ (pc = "done" /\ result.exc # "HttpError")

\* C2: for every list of up to 50 items of the details response,
\* search_youtube returns exactly the first min(20, k) of the k items whose
\* duration lies in [240, 1200], in the order of the response.
C2_FirstTwentyInWindow ==
    SearchEnded => pc = "check_videos" /\ videos = FirstInWindow(videos_response)

\* The same on responses in which every duration the loop reads has the
\* form "PT[n]H[n]M[n]S": there search_youtube returns, and returns that list.
C2_OnParsedDurations ==
    pc = "check_videos" => videos = FirstInWindow(videos_response)

\* ------------------------------------------------------------------------
\* The selection taken alone: select_best_video on every candidate list of
\* 1..MaxCandidates videos and every ranking text of up to MaxTextLen elements.
\* ------------------------------------------------------------------------

InitSelect ==
    /\ pc = "select" /\ voice_input = FALSE /\ query = "cooking"
    /\ videos_response = <<>> /\ videos \in CandidateLists /\ analysis \in Texts
    /\ result = Running
    /\ calls = <<"translator.detect", "youtube.search.list", "youtube.videos.list",
                 "model.generate_content">>
    /\ heard = <<>>
    /\ ParseIdle /\ ExtractIdle /\ ScrapeIdle /\ CleanIdle

NextSelect == Select

SpecSelect == InitSelect /\ [][NextSelect]_vars

\* The text holds the substring "Best video:".
HasBestVideoColon(text) ==
    \E i \in 1..Len(text) : At(text, i, "Best video") /\ At(text, i + 1, ":")

FirstCandidate == [exc |-> "", video |-> videos[1], explanation |-> Fallback]

Candidate(n) == [exc |-> "", video |-> videos[n], explanation |-> analysis]

\* C3, as stated: without a "Best video:" substring, or with a named index
\* outside [1, N], the first candidate and the fallback explanation come
\* back; otherwise the candidate at the named index and the response text.
C3_NoColonFallsBack ==
    pc = "done" =>
        LET named == ReSearch(analysis) IN
        IF ~HasBestVideoColon(analysis) \/ named = <<>>
              \/ IntOf(named) < 1 \/ IntOf(named) > Len(videos)
        THEN result = FirstCandidate
        ELSE result = Candidate(IntOf(named))

\* text[d..e] is a maximal run of digits that follows the "Best video" at
\* position i after an optional colon, any blanks and an optional "[".
PatternAt(text, i, d, e) ==
    /\ At(text, i, "Best video")
    /\ i < d /\ d <= e /\ e <= Len(text)
    /\ \A k \in d..e : IsDigit(text[k])
    /\ e = Len(text) \/ ~IsDigit(text[e + 1])
    /\ \E colon \in 0..1, bracket \in 0..1 :
         /\ colon + bracket <= d - 1 - i
         /\ \A k \in (i + 1)..(d - 1) :
              text[k] = (IF k = i + 1 /\ colon = 1 THEN ":"
                         ELSE IF k = d - 1 /\ bracket = 1 THEN "[" ELSE " ")

\* The index the leftmost occurrence of the pattern names, 0 when the
\* pattern occurs nowhere.
NamedIndex(text) ==
    LET P == 1..Len(text)
        hits == {i \in P : \E d \in P, e \in P : PatternAt(text, i, d, e)}
    IN  IF hits = {} THEN 0
        ELSE LET i == CHOOSE h \in hits : \A g \in hits : h <= g
                 d == CHOOSE x \in P : \E e \in P : PatternAt(text, i, x, e)
                 e == CHOOSE y \in P : PatternAt(text, i, d, y)
             IN  IntOf(SubSeq(text, d, e))

\* C3, amended: select_best_video returns the candidate at the index named by
\* the leftmost "Best video", optional colon, optional blanks, optional "[",
\* digits, with the unmodified text, when that index is in [1, N]; in every
\* other case the first candidate with the fallback explanation.
C3_PatternOrFallback ==
    pc = "done" =>
        LET n == NamedIndex(analysis) IN
        IF 1 <= n /\ n <= Len(videos) THEN result = Candidate(n)
        ELSE result = FirstCandidate

\* "Best video 2" (no colon) on three candidates gave the second candidate.
C3_Witness ==
    /\ pc = "done" /\ Len(videos) = 3
    /\ analysis = <<"Best video", " ", "2">>
    /\ result = Candidate(2)

\* ------------------------------------------------------------------------
\* Properties of a whole run
\* ------------------------------------------------------------------------

\* The ranking call returned a text and run went on to its return.
RankingReturned ==
    /\ pc = "done" /\ calls # <<>>
    /\ calls[Len(calls)] = "model.generate_content"
    /\ result.exc # "GoogleAPIError"

\* C4: once the search stage gave a non-empty candidate list and the ranking
\* call returned a text, run returns, whatever the text, a video of the
\* candidate list (whose duration lies in [240, 1200]) and an explanation.
C4_RankingTextNeverFails ==
    RankingReturned =>
        /\ result.exc = ""
        /\ \E i \in 1..Len(videos) : result.video = videos[i]
        /\ InWindow(result.video)
        /\ result.explanation \in {analysis, Fallback}

\* A ranking text without any index, "x", left run with the first candidate.
C4_Witness ==
    /\ RankingReturned
    /\ analysis = <<"x">>
    /\ Len(videos) = 2
    /\ result = FirstCandidate

\* C5: on the voice path the hi-IN recognition is the first call and the
\* en-US recognition follows any failure of it, once; when the second attempt
\* fails with UnknownValueError or RequestError, get_input returns None, no
\* further service is called, and run returns
\* (None, "No valid query provided") without raising.
C5_VoiceFallbackThenNoQuery ==
    /\ Len(heard) <= 2
    /\ heard # <<>> =>
         /\ voice_input /\ calls[1] = "recognize hi-IN"
         /\ heard[1] # "transcript" =>
              IF Len(heard) = 1 THEN pc = "recognize_en" /\ Len(calls) = 1
              ELSE calls[2] = "recognize en-US"
         /\ heard[1] = "transcript" => Len(heard) = 1
    /\ (Len(heard) = 2 /\ heard[2] \in {"UnknownValueError", "RequestError"}) =>
         /\ query = QueryNone
         /\ calls = <<"recognize hi-IN", "recognize en-US">>
         /\ pc \in {"check_query", "done"}
         /\ pc = "done" => result = ReturnNone("No valid query provided")

\* Both recognitions failed and run has returned its "no valid query" report.
C5_Witness ==
    /\ voice_input /\ pc = "done" /\ query = QueryNone
    /\ heard = <<"TimeoutError", "RequestError">>
    /\ calls = <<"recognize hi-IN", "recognize en-US">>
    /\ result = ReturnNone("No valid query provided")

\* The place of a call in the order of the stages: input (the two speech
\* recognitions), language normalization, search, ranking.
CallRank(call) ==
    CASE call = "recognize hi-IN" -> 1
      [] call = "recognize en-US" -> 2
      [] call = "translator.detect" -> 3
      [] call = "translator.translate" -> 4
      [] call = "youtube.search.list" -> 5
      [] call = "youtube.videos.list" -> 6
      [] call = "model.generate_content" -> 7

\* The place of the earliest call run can still make from the statement at pc
\* (8: none).
NextCallRank(at) ==
    CASE at \in {"get_input", "recognize_hi"} -> 1
      [] at = "recognize_en" -> 2
      [] at = "detect" -> 3
      [] at = "translate" -> 4
      [] at \in {"check_query", "search_list"} -> 5
      [] at = "videos_list" -> 6
      [] at \in {"filter", "check_videos", "analyze"} -> 7
      [] at \in {"select", "done"} -> 8

Called(call) == \E i \in 1..Len(calls) : calls[i] = call

\* C11: the calls of a run follow the order input, language normalization,
\* search, filtering, ranking, selection, each call made at most once and none
\* again after a later stage began; the ranking call is made only after
\* search_youtube returned a non-empty filtered list, and on an empty filtered
\* list run returns (None, "No videos found matching the criteria") without it.
C11_StagesInOrderCalledOnce ==
    /\ \A i \in 1..Len(calls) : \A j \in 1..Len(calls) :
         i < j => CallRank(calls[i]) < CallRank(calls[j])
    /\ \A i \in 1..Len(calls) : CallRank(calls[i]) < NextCallRank(pc)
    /\ pc \in {"filter", "check_videos", "analyze"} =>
         calls # <<>> /\ calls[Len(calls)] = "youtube.videos.list"
    /\ Called("model.generate_content") =>
         /\ videos # <<>> /\ videos = FirstInWindow(videos_response)
         /\ Called("youtube.search.list") /\ Called("youtube.videos.list")
         /\ Called("translator.detect")
    /\ result.video # NoVideo => pc = "done" /\ Called("model.generate_content")
    /\ (pc = "done" /\ result.exc = "" /\ Called("youtube.videos.list") /\ videos = <<>>) =>
         /\ result = ReturnNone("No videos found matching the criteria")
         /\ ~Called("model.generate_content")

\* A spoken query, recognized at the second attempt and translated, found
\* videos none of which is in the window: run returned its "no videos" report
\* after one call of each service and no ranking call.
C11_Witness ==
    /\ pc = "done" /\ videos = <<>> /\ Len(videos_response) = 2
    /\ calls = <<"recognize hi-IN", "recognize en-US", "translator.detect",
                 "translator.translate", "youtube.search.list", "youtube.videos.list">>
    /\ result = ReturnNone("No videos found matching the criteria")

\* ------------------------------------------------------------------------
\* scraping.py: extract_product_data
\* ------------------------------------------------------------------------

IsBlank(c) == c = " "

\* s.strip() of Python.
RECURSIVE LStrip(_)
LStrip(s) == IF Len(s) > 0 /\ IsBlank(s[1]) THEN LStrip(Tail(s)) ELSE s

RECURSIVE RStrip(_)
RStrip(s) ==
    IF Len(s) > 0 /\ IsBlank(s[Len(s)]) THEN RStrip(SubSeq(s, 1, Len(s) - 1)) ELSE s

Strip(s) == RStrip(LStrip(s))

\* s.replace(",", "") of Python.
NotComma(c) == c # ","

RemoveCommas(s) == SelectSeq(s, NotComma)

\* re.search(r'(\d+(\.\d+)?)', text): group 1 of the leftmost match, <<>>
\* when the text holds no digit.
RatingMatch(text) ==
    IF \A i \in 1..Len(text) : ~IsDigit(text[i]) THEN <<>>
    ELSE LET first == CHOOSE i \in 1..Len(text) :
                          IsDigit(text[i]) /\ \A j \in 1..(i - 1) : ~IsDigit(text[j])
             whole == SkipDigits(text, first)
             fraction == IF At(text, whole, ".") THEN SkipDigits(text, whole + 1) ELSE whole
         IN  IF fraction > whole + 1 THEN SubSeq(text, first, fraction - 1)
             ELSE SubSeq(text, first, whole - 1)

\* An element item.find looks for: absent, or present with its text (for the
\* anchor's href and the image's src: the attribute, absent or with its value).
NoElement == [present |-> FALSE, text |-> <<>>]

Element(t) == [present |-> TRUE, text |-> t]

SitePrefix == <<"https://www.amazon.in">>

Record(title, brand, reviews, rating, price, img_url, product_url, sponsored) ==
    [Title |-> title, Brand |-> brand, Reviews |-> reviews, Rating |-> rating,
     Selling_Price |-> price, Image_URL |-> img_url, Product_URL |-> product_url,
     Sponsored |-> sponsored]

\* A plausible slip: a listing whose anchor has no href is skipped as well.
ExtractProductDataHrefRequired(container) ==
    IF container.anchor # "a" \/ ~container.href.present \/ container.href.text = <<>>
    THEN [status |-> "None", record |-> NoRecord]
    ELSE [status |-> "record",
          record |-> Record(Strip(container.text),
                            IF container.brand.present THEN Strip(container.brand.text) ELSE <<>>,
                            IF container.reviews.present
                                THEN RemoveCommas(Strip(container.reviews.text)) ELSE <<>>,
                            IF container.rating.present
                                THEN RatingMatch(container.rating.text) ELSE <<>>,
                            IF container.price.present
                                THEN RemoveCommas(Strip(container.price.text)) ELSE <<>>,
                            IF container.img.present THEN container.img.text ELSE <<>>,
                            SitePrefix \o container.href.text,
                            container.sponsored_span)]

\* extract_product_data(item): None when the first h2 of the container is
\* missing or holds no anchor (a Tag is always true), else the record.
ExtractProductData(container) ==
    IF container.anchor # "a" THEN [status |-> "None", record |-> NoRecord]
    ELSE [status |-> "record",
          record |-> Record(Strip(container.text),
                            IF container.brand.present THEN Strip(container.brand.text) ELSE <<>>,
                            IF container.reviews.present
                                THEN RemoveCommas(Strip(container.reviews.text)) ELSE <<>>,
                            IF container.rating.present
                                THEN RatingMatch(container.rating.text) ELSE <<>>,
                            IF container.price.present
                                THEN RemoveCommas(Strip(container.price.text)) ELSE <<>>,
                            IF container.img.present THEN container.img.text ELSE <<>>,
                            IF container.href.present /\ container.href.text # <<>>
                                THEN SitePrefix \o container.href.text ELSE <<>>,
                            container.sponsored_span)]

\* The listing containers of the model.
AnchorTexts ==
    { <<>>, <<" ">>, <<"A">>, <<"A", " ", "T", "o", "y">>,
      <<" ", "A", "c", "m", "e", " ", "T", "o", "y", " ">> }

Hrefs == { NoElement, Element(<<>>), Element(<<"/dp/B01">>) }

BrandElements == { NoElement, Element(<<>>), Element(<<" ", "A", "c", "m", "e", " ">>) }

PriceElements == { NoElement, Element(<<"1", ",", "2", "9", "9">>), Element(<<"4", "9", "9", ".">>) }

RatingElements ==
    { NoElement, Element(<<"4", ".", "5", " ", "o", "u", "t", " ", "o", "f", " ", "5">>),
      Element(<<"n", "e", "w">>) }

ReviewsElements == { NoElement, Element(<<"1", ",", "2", "3", "4">>) }

ImgElements == { NoElement, Element(<<"https://m.media-amazon.com/1.jpg">>) }

Containers ==
    { c \in [sponsored_span : BOOLEAN, anchor : {"no h2", "h2 without a", "a"},
             text : AnchorTexts, href : Hrefs, brand : BrandElements, price : PriceElements,
             rating : RatingElements, reviews : ReviewsElements, img : ImgElements] :
        c.anchor # "a" => (c.text = <<>> /\ c.href = NoElement) }

InitExtract ==
    /\ item \in Containers
    /\ product_data = NotExtracted
    /\ ParseIdle /\ RunIdle /\ ScrapeIdle /\ CleanIdle

CallExtractProductData ==
    /\ product_data = NotExtracted
    /\ product_data' = ExtractProductData(item)
    /\ UNCHANGED item
    /\ UNCHANGED notExtract

NextExtract == CallExtractProductData

SpecExtract == InitExtract /\ [][NextExtract]_vars

HasTitle(container) == container.anchor = "a" /\ Strip(container.text) # <<>>

HasLink(container) ==
    container.anchor = "a" /\ container.href.present /\ container.href.text # <<>>

\* C7, as stated: a container without a resolvable title or without a
\* resolvable link gives no record, and every record returned has a title
\* and a product URL.
C7_NoPartialRecord ==
    product_data # NotExtracted =>
        /\ (~HasTitle(item) \/ ~HasLink(item)) => product_data.status = "None"
        /\ product_data.status = "record" =>
             product_data.record.Title # <<>> /\ product_data.record.Product_URL # <<>>

\* t is s without its leading and trailing blanks.
StrippedOf(t, s) ==
    /\ t # <<>> => ~IsBlank(t[1]) /\ ~IsBlank(t[Len(t)])
    /\ \E a \in 0..Len(s) :
         /\ a + Len(t) <= Len(s)
         /\ \A k \in 1..Len(s) :
              IF a < k /\ k <= a + Len(t) THEN s[k] = t[k - a] ELSE IsBlank(s[k])

\* C7, amended: extract_product_data returns no record exactly when the first
\* h2 of the container holds no anchor; a record it returns has the stripped
\* text of the anchor as title, which may be empty, and as product URL the site
\* prefix followed by the href, or the empty text when the anchor has no href.
C7_RecordIffAnchor ==
    product_data # NotExtracted =>
        /\ product_data.status = "None" <=> item.anchor # "a"
        /\ product_data.status = "record" =>
             /\ StrippedOf(product_data.record.Title, item.text)
             /\ HasLink(item) => product_data.record.Product_URL = SitePrefix \o item.href.text
             /\ ~HasLink(item) => product_data.record.Product_URL = <<>>

\* A sponsored listing whose anchor has a title and no href gave a record
\* with an empty product URL.
C7_Witness ==
    /\ item.anchor = "a" /\ ~item.href.present /\ item.text = <<"A", " ", "T", "o", "y">>
    /\ product_data.status = "record"
    /\ product_data.record.Title = <<"A", " ", "T", "o", "y">>
    /\ product_data.record.Product_URL = <<>>

\* ------------------------------------------------------------------------
\* scraping.py: get_urls and scrape_amazon_products, statement by statement
\* ------------------------------------------------------------------------

BaseUrl == <<"https://www.amazon.in/s?k=soft+toys&crid=2M096C61O4MLT&sprefix=ba%2Caps%2C283&ref=sr_pg_1">>

\* get_urls(base_url, num_pages)
GetUrls(base_url, n) ==
    <<base_url>> \o [k \in 1..(n - 1) |-> base_url \o <<"&page=">> \o StrOf(k + 1)]

\* The inner loop of scrape_amazon_products over the first `upto` containers
\* of a page: products_data with the sponsored records appended.
RECURSIVE CollectLoop(_, _, _, _)
CollectLoop(results, i, upto, collected) ==
    IF i > upto THEN collected
    ELSE LET extracted == ExtractProductData(results[i]) IN
         IF extracted.status = "record" /\ extracted.record.Sponsored
         THEN CollectLoop(results, i + 1, upto, Append(collected, extracted.record))
         ELSE CollectLoop(results, i + 1, upto, collected)

\* A plausible slip: the loop keeps every record, sponsored or not.
CollectAllRecords(results, upto, collected) ==
    LET RECURSIVE Go(_, _)
        Go(i, acc) ==
            IF i > upto THEN acc
            ELSE LET extracted == ExtractProductData(results[i]) IN
                 IF extracted.status = "record" THEN Go(i + 1, Append(acc, extracted.record))
                 ELSE Go(i + 1, acc)
    IN  Go(1, collected)

Collect(results, upto, collected) == CollectLoop(results, 1, upto, collected)

\* Largest num_pages, and most containers on a page, of the model.
MaxPages == 2

MaxListings == 2

Listing(sponsored, anchor, title) ==
    [sponsored_span |-> sponsored, anchor |-> anchor, text |-> title,
     href |-> IF anchor = "a" THEN Element(<<"/dp/B01">>) ELSE NoElement,
     brand |-> NoElement, price |-> Element(<<"4", "9", "9", ".">>), rating |-> NoElement,
     reviews |-> NoElement, img |-> NoElement]

\* A sponsored listing, a listing that is not sponsored, and a sponsored
\* container without a title anchor.
PageListings ==
    { Listing(TRUE, "a", <<"A", " ", "T", "o", "y">>), Listing(FALSE, "a", <<"A">>),
      Listing(TRUE, "no h2", <<>>) }

PageContents == SeqsUpTo(PageListings, MaxListings)

Fail(e) == scraped' = [exc |-> e, value |-> <<>>] /\ b_pc' = "finally"

\* pages = get_urls(...) has run; driver = setup_driver(), before the try.
SetupDriver ==
    /\ b_pc = "setup"
    /\ \/ driver' = "open" /\ b_pc' = "fetch" /\ UNCHANGED scraped
       \/ scraped' = [exc |-> "WebDriverException", value |-> <<>>] /\ b_pc' = "done"
          /\ UNCHANGED driver
    /\ UNCHANGED <<num_pages, pages, page_i, quit_calls, fetched, products_data, fetch_log>>
    /\ UNCHANGED notScrape

\* A plausible slip: a page whose fetch fails is skipped and the loop goes on
\* with the next one.
FetchPageSkipsFailedPage ==
    /\ b_pc = "fetch"
    /\ IF page_i > Len(pages)
       THEN b_pc' = "finally" /\ UNCHANGED <<scraped, fetch_log, page_i>>
       ELSE \/ /\ fetch_log' = fetch_log \o <<[op |-> "get", url |-> pages[page_i]],
                                              [op |-> "sleep", url |-> <<"2">>]>>
               /\ b_pc' = "parse" /\ UNCHANGED <<scraped, page_i>>
            \/ /\ fetch_log' = Append(fetch_log, [op |-> "get", url |-> pages[page_i]])
               /\ page_i' = page_i + 1 /\ UNCHANGED <<scraped, b_pc>>
    /\ UNCHANGED <<num_pages, pages, driver, quit_calls, fetched, products_data>>
    /\ UNCHANGED notScrape

\* `for page_url in pages:` driver.get(page_url); time.sleep(2) -- or the end
\* of the loop.
FetchPage ==
    /\ b_pc = "fetch"
    /\ IF page_i > Len(pages)
       THEN b_pc' = "finally" /\ UNCHANGED <<scraped, fetch_log>>
       ELSE \/ /\ fetch_log' = fetch_log \o <<[op |-> "get", url |-> pages[page_i]],
                                              [op |-> "sleep", url |-> <<"2">>]>>
               /\ b_pc' = "parse" /\ UNCHANGED scraped
            \/ /\ fetch_log' = Append(fetch_log, [op |-> "get", url |-> pages[page_i]])
               /\ Fail("WebDriverException")
    /\ UNCHANGED <<num_pages, pages, page_i, driver, quit_calls, fetched, products_data>>
    /\ UNCHANGED notScrape

\* soup = BeautifulSoup(driver.page_source, ...); results = soup.find_all(...)
ParsePage ==
    /\ b_pc = "parse"
    /\ \/ \E results \in PageContents : fetched' = Append(fetched, results) /\ b_pc' = "extract"
          /\ UNCHANGED scraped
       \/ Fail("WebDriverException") /\ UNCHANGED fetched
    /\ UNCHANGED <<num_pages, pages, page_i, driver, quit_calls, products_data, fetch_log>>
    /\ UNCHANGED notScrape

\* `for item in results:` to its end, or to an exception at one container.
ExtractListings ==
    /\ b_pc = "extract"
    /\ LET results == fetched[Len(fetched)] IN
       \/ /\ products_data' = Collect(results, Len(results), products_data)
          /\ page_i' = page_i + 1 /\ b_pc' = "fetch" /\ UNCHANGED scraped
       \/ \E k \in 1..Len(results) :
            /\ products_data' = Collect(results, k - 1, products_data)
            /\ Fail("AttributeError") /\ UNCHANGED page_i
    /\ UNCHANGED <<num_pages, pages, driver, quit_calls, fetched, fetch_log>>
    /\ UNCHANGED notScrape

\* A plausible slip: driver.quit() after the loop instead of in a finally.
QuitAfterLoopOnly ==
    /\ b_pc = "finally"
    /\ IF scraped.exc = "running"
       THEN /\ driver' = "quit" /\ quit_calls' = quit_calls + 1
            /\ scraped' = [exc |-> "", value |-> products_data]
       ELSE UNCHANGED <<driver, quit_calls, scraped>>
    /\ b_pc' = "done"
    /\ UNCHANGED <<num_pages, pages, page_i, fetched, products_data, fetch_log>>
    /\ UNCHANGED notScrape

\* finally: driver.quit(); then `return products_data`, or the exception
\* goes on to the caller.
Finally ==
    /\ b_pc = "finally"
    /\ driver' = "quit" /\ quit_calls' = quit_calls + 1
    /\ scraped' = (IF scraped.exc = "running" THEN [exc |-> "", value |-> products_data]
                   ELSE scraped)
    /\ b_pc' = "done"
    /\ UNCHANGED <<num_pages, pages, page_i, fetched, products_data, fetch_log>>
    /\ UNCHANGED notScrape

InitScrape ==
    /\ b_pc = "setup" /\ num_pages \in 0..MaxPages /\ pages = GetUrls(BaseUrl, num_pages)
    /\ page_i = 1 /\ driver = "none" /\ quit_calls = 0 /\ fetched = <<>>
    /\ products_data = <<>> /\ scraped = Scraping /\ fetch_log = <<>>
    /\ ParseIdle /\ RunIdle /\ ExtractIdle /\ CleanIdle

NextScrape ==
    \/ SetupDriver
    \/ FetchPage
    \/ ParsePage
    \/ ExtractListings
    \/ Finally

SpecScrape == InitScrape /\ [][NextScrape]_vars

\* C6: the session setup_driver opened is released, by exactly one
\* driver.quit(), on every path out of scrape_amazon_products: after the last
\* page, and after an exception of a fetch, a parse or an extraction.
C6_DriverQuitOnEveryExit ==
    /\ quit_calls <= 1
    /\ driver = "open" => quit_calls = 0 /\ b_pc \in {"fetch", "parse", "extract", "finally"}
    /\ b_pc = "done" => driver # "open"
    /\ (b_pc = "done" /\ driver = "quit") => quit_calls = 1
    /\ (b_pc = "done" /\ driver = "none") =>
         quit_calls = 0 /\ scraped.exc = "WebDriverException" /\ fetch_log = <<>>

\* An extraction failed on the second page and the session was quit, once.
C6_Witness ==
    /\ b_pc = "done" /\ scraped.exc = "AttributeError" /\ Len(fetched) = 2
    /\ driver = "quit" /\ quit_calls = 1

RECURSIVE Flatten(_)
Flatten(ss) == IF ss = <<>> THEN <<>> ELSE Head(ss) \o Flatten(Tail(ss))

IsSponsoredRecord(extracted) == extracted.status = "record" /\ extracted.record.Sponsored

\* The sponsored records of the containers of the given pages, in page order
\* and then listing order.
SponsoredOf(pageList) ==
    LET all == Flatten(pageList)
        extractedAll == [k \in 1..Len(all) |-> ExtractProductData(all[k])]
        kept == SelectSeq(extractedAll, IsSponsoredRecord)
    IN  [k \in 1..Len(kept) |-> kept[k].record]

MaxUrls == 12

\* urls is the base URL followed by the base URL with "&page=" and the decimal
\* numeral of 2, 3, ..., n, in this order.
PagesAsClaimed(urls, n) ==
    /\ Len(urls) = n
    /\ urls[1] = BaseUrl
    /\ \A k \in 2..n :
         LET numeral == SliceFrom(urls[k], Len(BaseUrl) + 1) IN
           /\ SubSeq(urls[k], 1, Len(BaseUrl)) = BaseUrl
           /\ urls[k][Len(BaseUrl) + 1] = "&page="
           /\ IntOk(numeral) /\ IntOf(numeral) = k /\ numeral[1] # "0"

IsGet(entry) == entry.op = "get"

\* The driver.get calls made so far, in the order they were made.
Gets == SelectSeq(fetch_log, IsGet)

\* The i-th entry of the log is a driver.get that raised: no sleep follows it.
GetFailed(i) ==
    /\ fetch_log[i].op = "get"
    /\ i = Len(fetch_log) \/ fetch_log[i + 1].op # "sleep"

\* C12: for num_pages >= 1 get_urls gives num_pages URLs, the base URL and then
\* the base URL with page parameter 2..num_pages in increasing order;
\* scrape_amazon_products fetches them one after the other in that order, each
\* at most once, sleeps 2 seconds after every fetch that returned, and when the
\* fetch of a page fails no further page is fetched and the call ends by the
\* exception, returning none of the records collected before.
C12_SequentialFetchNoRetry ==
    /\ \A n \in 1..MaxUrls : PagesAsClaimed(GetUrls(BaseUrl, n), n)
    /\ num_pages >= 1 => PagesAsClaimed(pages, num_pages)
    /\ Len(Gets) <= Len(pages)
    /\ \A j \in 1..Len(Gets) : Gets[j].url = pages[j]
    /\ b_pc \in {"parse", "extract"} =>
         /\ Len(Gets) = page_i
         /\ fetch_log[Len(fetch_log)] = [op |-> "sleep", url |-> <<"2">>]
    /\ \A i \in 1..Len(fetch_log) :
         /\ fetch_log[i].op = "sleep" =>
              i > 1 /\ fetch_log[i - 1].op = "get" /\ fetch_log[i].url = <<"2">>
         /\ GetFailed(i) =>
              /\ i = Len(fetch_log)
              /\ b_pc \in {"finally", "done"}
              /\ scraped = [exc |-> "WebDriverException", value |-> <<>>]

\* Two pages asked: the first gave sponsored records, the fetch of the second
\* failed, and the call ended by the exception with the records not returned.
C12_Witness ==
    /\ num_pages = 2 /\ b_pc = "done" /\ products_data # <<>>
    /\ fetch_log = <<[op |-> "get", url |-> BaseUrl],
                     [op |-> "sleep", url |-> <<"2">>],
                     [op |-> "get", url |-> BaseUrl \o <<"&page=", "2">>]>>
    /\ scraped = [exc |-> "WebDriverException", value |-> <<>>]
    /\ driver = "quit"

\* ------------------------------------------------------------------------
\* scraping.py: clean_data and extract_brand_from_title
\* A frame is its rows and whether its 'Selling Price', 'Reviews' and 'Rating'
\* columns hold numbers (a numeric dtype) or text (dtype object, as in the
\* frame built from the scraped records).  A number is [nan, n]; a rating is
\* kept in tenths.
\* ------------------------------------------------------------------------

NaN == [nan |-> TRUE, n |-> 0]

Num(n) == [nan |-> FALSE, n |-> n]

\* df.drop_duplicates(subset=['Title', 'Product URL']): the first row of each
\* (title, URL) pair.
RECURSIVE DropDuplicates(_)
DropDuplicates(rows) ==
    IF rows = <<>> THEN <<>>
    ELSE LET init == DropDuplicates(SubSeq(rows, 1, Len(rows) - 1))
             last == rows[Len(rows)]
         IN  IF \E k \in 1..(Len(rows) - 1) :
                    rows[k].Title = last.Title /\ rows[k].Product_URL = last.Product_URL
             THEN init ELSE Append(init, last)

\* .str.replace('[^0-9]', '', regex=True), then pd.to_numeric(errors='coerce').
DigitsOf(text) == SelectSeq(text, IsDigit)

ToNumeric(text) == IF text = <<>> THEN NaN ELSE Num(IntOf(text))

\* pd.to_numeric(errors='coerce') of a rating text, in tenths: digits with at
\* most one decimal (the ratings of the model have no more), else NaN.
RatingToNumeric(text) ==
    IF IntOk(text) THEN Num(10 * IntOf(text))
    ELSE IF Len(text) >= 3 /\ text[Len(text) - 1] = "." /\ IntOk(SubSeq(text, 1, Len(text) - 2))
            /\ IsDigit(text[Len(text)])
         THEN Num(10 * IntOf(SubSeq(text, 1, Len(text) - 2)) + DigitValue(text[Len(text)]))
         ELSE NaN

\* .fillna(0)
FillNa(x) == IF x.nan THEN Num(0) ELSE x

\* title.split(): the runs of non-blank characters, in order.
RECURSIVE Words(_)
Words(text) ==
    LET t == LStrip(text) IN
    IF t = <<>> THEN <<>>
    ELSE LET stop == IF Contains(t, " ") THEN FirstIndex(t, " ") ELSE Len(t) + 1 IN
         <<SubSeq(t, 1, stop - 1)>> \o Words(SliceFrom(t, stop - 1))

Unknown == <<"U", "n", "k", "n", "o", "w", "n">>

\* extract_brand_from_title(row); a title and a brand of a scraped record are
\* text, so pd.notna holds of both.
ExtractBrandFromTitle(row) ==
    IF Strip(row.Brand) # <<>> THEN [exc |-> "", brand |-> row.Brand]
    ELSE IF Words(row.Title) = <<>> THEN [exc |-> "IndexError", brand |-> <<>>]
    ELSE LET first_word == Words(row.Title)[1] IN
         IF Len(first_word) > 1 THEN [exc |-> "", brand |-> first_word]
         ELSE [exc |-> "", brand |-> Unknown]

CleanRow(row) ==
    [row EXCEPT !.Selling_Price = ToNumeric(DigitsOf(row.Selling_Price)),
                !.Reviews = FillNa(ToNumeric(DigitsOf(row.Reviews))),
                !.Rating = FillNa(RatingToNumeric(row.Rating)),
                !.Brand = ExtractBrandFromTitle(row).brand]

CleanFailed(e) == [exc |-> e, rows |-> <<>>, numeric |-> FALSE]

\* clean_data(df).  A frame without columns has no 'Title' to deduplicate on
\* (KeyError); the .str accessor exists on a text column only (AttributeError
\* on a numeric one); an exception of the row function leaves apply.
CleanData(df) ==
    IF df.rows = <<>> THEN CleanFailed("KeyError")
    ELSE IF df.numeric THEN CleanFailed("AttributeError")
    ELSE LET deduped == DropDuplicates(df.rows) IN
         IF \E k \in 1..Len(deduped) : ExtractBrandFromTitle(deduped[k]).exc # ""
         THEN CleanFailed("IndexError")
         ELSE [exc |-> "", rows |-> [k \in 1..Len(deduped) |-> CleanRow(deduped[k])],
               numeric |-> TRUE]

\* Most rows of a raw frame of the model.
MaxRows == 2

Titles ==
    { <<>>, <<"A">>, <<"A", " ", "T", "o", "y">>, <<"A", "c", "m", "e", " ", "T", "o", "y">> }

Brands == { <<>>, <<" ">>, <<"Z", "e", "d">> }

ProductUrls == { <<>>, SitePrefix \o <<"/dp/B01">> }

\* The records a raw frame is built from: the numeric texts all present
\* ("1299", "1234", "4.5") or all empty.
RawRows ==
    { Record(t, b, IF filled THEN <<"1", "2", "3", "4">> ELSE <<>>,
             IF filled THEN <<"4", ".", "5">> ELSE <<>>,
             IF filled THEN <<"1", "2", "9", "9">> ELSE <<>>, <<>>, u, TRUE) :
        t \in Titles, b \in Brands, u \in ProductUrls, filled \in BOOLEAN }

InitClean ==
    /\ c_pc = "raw"
    /\ raw_df \in [rows : SeqsUpTo(RawRows, MaxRows), numeric : {FALSE}]
    /\ clean_df = NotCleaned /\ reclean_df = NotCleaned
    /\ ParseIdle /\ RunIdle /\ ExtractIdle /\ ScrapeIdle

\* clean_df = clean_data(raw_df)
CleanOnce ==
    /\ c_pc = "raw"
    /\ clean_df' = CleanData(raw_df)
    /\ c_pc' = "cleaned"
    /\ UNCHANGED <<raw_df, reclean_df>>
    /\ UNCHANGED notClean

\* clean_data applied to the frame clean_data returned.
CleanAgain ==
    /\ c_pc = "cleaned" /\ clean_df.exc = ""
    /\ reclean_df' = CleanData([rows |-> clean_df.rows, numeric |-> clean_df.numeric])
    /\ c_pc' = "recleaned"
    /\ UNCHANGED <<raw_df, clean_df>>
    /\ UNCHANGED notClean

NextClean ==
    \/ CleanOnce
    \/ CleanAgain

SpecClean == InitClean /\ [][NextClean]_vars

\* C9: clean_data applied to the output of clean_data succeeds and returns a
\* frame identical to that output.
C9_CleanTwiceIsCleanOnce ==
    c_pc = "recleaned" => reclean_df.exc = "" /\ reclean_df = clean_df

\* w is the first blank-delimited token of the title.
IsFirstToken(w, title) ==
    \E a \in 0..Len(title) :
        /\ Len(w) > 0 /\ a + Len(w) <= Len(title)
        /\ \A k \in 1..a : IsBlank(title[k])
        /\ \A k \in 1..Len(w) : title[a + k] = w[k] /\ ~IsBlank(w[k])
        /\ a + Len(w) = Len(title) \/ IsBlank(title[a + Len(w) + 1])

\* The first token of the title, <<>> when the title has no token at all.
FirstToken(title) ==
    LET P == 1..Len(title)
        tokens == {w \in {SubSeq(title, a, b) : a \in P, b \in P} : IsFirstToken(w, title)}
    IN  IF tokens = {} THEN <<>> ELSE CHOOSE w \in tokens : TRUE

\* The brand the backfill is to give a record.
ClaimedBrand(row) ==
    IF \E k \in 1..Len(row.Brand) : ~IsBlank(row.Brand[k]) THEN row.Brand
    ELSE IF Len(FirstToken(row.Title)) > 1 THEN FirstToken(row.Title)
    ELSE Unknown

\* C10: for every record entering the cleaner the backfill does not fail; a
\* brand that is not blank is kept, a blank one becomes the first token of
\* the title when that token has more than one character, and "Unknown" in
\* every other case, a title without any token included.
C10_BrandBackfill ==
    (c_pc # "raw" /\ raw_df.rows # <<>>) =>
        /\ clean_df.exc = ""
        /\ LET deduped == DropDuplicates(raw_df.rows) IN
           /\ Len(clean_df.rows) = Len(deduped)
           /\ \A k \in 1..Len(deduped) : clean_df.rows[k].Brand = ClaimedBrand(deduped[k])

\* The same for the records whose title has a token, where the backfill
\* returns: the brand is as claimed.
C10_OnTitlesWithToken ==
    (c_pc # "raw" /\ clean_df.exc = "") =>
        LET deduped == DropDuplicates(raw_df.rows) IN
        /\ Len(clean_df.rows) = Len(deduped)
        /\ \A k \in 1..Len(deduped) : clean_df.rows[k].Brand = ClaimedBrand(deduped[k])

====
